---- MODULE Spec2Model ----
(***************************************************************************)
(* Lifecycle of runtime.MeshService (pkg/runtime/mesh.go): the start       *)
(* method, the heartbeat goroutine and the HTTP serving goroutine, with    *)
(* the discovery registry and the timer as the environment.                *)
(***************************************************************************)
EXTENDS Integers, Sequences, FiniteSets, TLC

(***************************************************************************)
(* Bounds of the model.                                                    *)
(***************************************************************************)
\* number of times the heartbeat ticker fires in one run
MaxTicks == 2

(***************************************************************************)
(* Program constants and input sets.                                       *)
(***************************************************************************)
\* DefaultOptions().Port
DefaultPort == 8080

\* ports the operating system may assign to a listener bound with port 0
EphemeralPorts == {49152, 60999}

\* values of ServiceOptions.Port
Ports == {0, DefaultPort}

\* values of ServiceOptions.Address, as sequences of characters
Addresses == { <<"0", ".", "0">>, <<":", ":", "1">> }

\* values of ServiceOptions.HealthInterval (a time.Duration)
Intervals == {0, 30}

(***************************************************************************)
(* strconv and net helpers; a string is a sequence of one-character        *)
(* strings.                                                                *)
(***************************************************************************)
Digits == <<"0", "1", "2", "3", "4", "5", "6", "7", "8", "9">>

RECURSIVE ItoaNat(_)
ItoaNat(n) ==
    IF n < 10 THEN << Digits[n + 1] >>
    ELSE Append(ItoaNat(n \div 10), Digits[(n % 10) + 1])

\* strconv.Itoa
Itoa(n) == IF n < 0 THEN << "-" >> \o ItoaNat(0 - n) ELSE ItoaNat(n)

DigitVal(c) == CHOOSE d \in 0..9 : Digits[d + 1] = c

IsDigit(c) == \E d \in 0..9 : Digits[d + 1] = c

RECURSIVE AtoiNat(_)
AtoiNat(s) ==
    IF Len(s) = 0 THEN 0
    ELSE 10 * AtoiNat(SubSeq(s, 1, Len(s) - 1)) + DigitVal(s[Len(s)])

\* strconv.Atoi with its error dropped: 0 when the string is not a number
Atoi(s) ==
    LET neg  == Len(s) > 0 /\ s[1] \in {"-", "+"}
        body == IF neg THEN SubSeq(s, 2, Len(s)) ELSE s
    IN  IF Len(body) = 0 \/ \E i \in 1..Len(body) : ~IsDigit(body[i]) THEN 0
        ELSE IF neg /\ s[1] = "-" THEN 0 - AtoiNat(body)
        ELSE AtoiNat(body)

HasChar(s, c) == \E i \in 1..Len(s) : s[i] = c

\* net.JoinHostPort: a host holding a colon is put in brackets
JoinHostPort(host, port) ==
    IF HasChar(host, ":") \/ HasChar(host, "%")
    THEN << "[" >> \o host \o << "]", ":" >> \o port
    ELSE host \o << ":" >> \o port

LastIndex(s, c) ==
    IF HasChar(s, c)
    THEN CHOOSE i \in 1..Len(s) : s[i] = c /\ \A j \in (i + 1)..Len(s) : s[j] # c
    ELSE 0

\* net.SplitHostPort: <<host, port>>, both empty on a malformed address
SplitHostPort(hostport) ==
    LET i == LastIndex(hostport, ":")
    IN  IF i = 0 THEN << <<>>, <<>> >>
        ELSE IF hostport[1] = "["
        THEN LET e == LastIndex(hostport, "]")
             IN  IF e = 0 \/ e + 1 # i THEN << <<>>, <<>> >>
                 ELSE << SubSeq(hostport, 2, e - 1), SubSeq(hostport, i + 1, Len(hostport)) >>
        ELSE LET host == SubSeq(hostport, 1, i - 1)
             IN  IF HasChar(host, ":") THEN << <<>>, <<>> >>
                 ELSE << host, SubSeq(hostport, i + 1, Len(hostport)) >>

(***************************************************************************)
(* ServiceOptions, DefaultOptions and the With* options                    *)
(* (pkg/runtime/options.go), New and buildMetadata (pkg/runtime/mesh.go).  *)
(***************************************************************************)
\* number of options passed to New
MaxOverrides == 2

StrMeshService == << "m", "e", "s", "h", "-", "s", "e", "r", "v", "i", "c", "e" >>
StrSvc == << "s", "v", "c" >>
StrId == << "i", "d", "-", "7" >>
StrAdv == << "a", "d", "v" >>
StrHealth == << "/", "h", "e", "a", "l", "t", "h" >>
StrReady == << "/", "r", "e", "a", "d", "y" >>
StrLocalhost == << "l", "o", "c", "a", "l", "h", "o", "s", "t", ":", "8", "0", "8", "0" >>
StrDisc == << "d", "i", "s", "c", ":", "1" >>
StrHttp == << "h", "t", "t", "p" >>
StrHttps == << "h", "t", "t", "p", "s" >>
StrProd == << "p", "r", "o", "d" >>

\* the LoadBalancingStrategy constants
RoundRobin == << "R", "o", "u", "n", "d", "R", "o", "b", "i", "n" >>
LeastConnections == << "L", "e", "a", "s", "t", "C", "o", "n", "n", "e", "c", "t", "i", "o", "n", "s" >>
WeightedRoundRobin == << "W", "e", "i", "g", "h", "t", "e", "d", "R", "o", "u", "n", "d", "R", "o", "b", "i", "n" >>

\* a map[string]string is a function from a finite set of keys
EmptyMap == [k \in {} |-> <<>>]

\* m[k] = v
MapSet(m, k, v) == [x \in DOMAIN m \cup {k} |-> IF x = k THEN v ELSE m[x]]

DefaultOptions ==
    [ ServiceName        |-> StrMeshService,
      ServiceID          |-> <<>>,
      Address            |-> << "0", ".", "0" >>,
      AdvertisedAddress  |-> <<>>,
      Port               |-> DefaultPort,
      HealthEndpoint     |-> StrHealth,
      HealthInterval     |-> 30,
      HealthTimeout      |-> 5,
      UnhealthyThreshold |-> 3,
      HeartbeatEnabled   |-> TRUE,
      AutoRegister       |-> TRUE,
      DiscoveryAddress   |-> StrLocalhost,
      Metadata           |-> EmptyMap,
      Routing            |-> [ Scheme              |-> StrHttp,
                               HealthCheckEndpoint |-> <<>>,
                               Strategy            |-> RoundRobin,
                               Weight              |-> 1 ] ]

\* an Option: the With* function and its argument (s a string, n an int,
\* b a bool, key the key of WithMetadata)
Opt(fn, key, str, n, b) == [ fn |-> fn, key |-> key, s |-> str, n |-> n, b |-> b ]

MetadataKeys == {"env", "scheme", "weight"}

Overrides ==
    { Opt("WithServiceName", "", a, 0, FALSE) : a \in {<<>>, StrSvc} }
    \cup { Opt("WithServiceID", "", a, 0, FALSE) : a \in {<<>>, StrId} }
    \cup { Opt("WithAddress", "", a, 0, FALSE) : a \in Addresses }
    \cup { Opt("WithAdvertisedAddress", "", a, 0, FALSE) : a \in {<<>>, StrAdv} }
    \cup { Opt("WithPort", "", <<>>, a, FALSE) : a \in Ports }
    \cup { Opt("WithHealthEndpoint", "", a, 0, FALSE) : a \in {<<>>, StrReady} }
    \cup { Opt("WithHealthInterval", "", <<>>, a, FALSE) : a \in Intervals }
    \cup { Opt("WithHeartbeat", "", <<>>, 0, a) : a \in BOOLEAN }
    \cup { Opt("WithAutoRegister", "", <<>>, 0, a) : a \in BOOLEAN }
    \cup { Opt("WithDiscoveryAddress", "", a, 0, FALSE) : a \in {StrDisc} }
    \cup { Opt("WithMetadata", k, a, 0, FALSE) : k \in MetadataKeys, a \in {StrProd, << "3" >>} }
    \cup { Opt("WithRoutingStrategy", "", a, 0, FALSE) : a \in {LeastConnections, WeightedRoundRobin} }
    \cup { Opt("WithRoutingWeight", "", <<>>, a, FALSE) : a \in {-1, 0, 3} }
    \cup { Opt("WithRoutingScheme", "", a, 0, FALSE) : a \in {StrHttps} }

\* fn(&o) for the option v
ApplyOption(o, v) ==
    CASE v.fn = "WithServiceName"       -> [o EXCEPT !.ServiceName = v.s]
      [] v.fn = "WithServiceID"         -> [o EXCEPT !.ServiceID = v.s]
      [] v.fn = "WithAddress"           -> [o EXCEPT !.Address = v.s]
      [] v.fn = "WithAdvertisedAddress" -> [o EXCEPT !.AdvertisedAddress = v.s]
      [] v.fn = "WithPort"              -> [o EXCEPT !.Port = v.n]
      [] v.fn = "WithHealthEndpoint"    -> [o EXCEPT !.HealthEndpoint = v.s]
      [] v.fn = "WithHealthInterval"    -> [o EXCEPT !.HealthInterval = v.n]
      [] v.fn = "WithHeartbeat"         -> [o EXCEPT !.HeartbeatEnabled = v.b]
      [] v.fn = "WithAutoRegister"      -> [o EXCEPT !.AutoRegister = v.b]
      [] v.fn = "WithDiscoveryAddress"  -> [o EXCEPT !.DiscoveryAddress = v.s]
      [] v.fn = "WithMetadata"          -> [o EXCEPT !.Metadata = MapSet(@, v.key, v.s)]
      [] v.fn = "WithRoutingStrategy"   -> [o EXCEPT !.Routing.Strategy = v.s]
      [] v.fn = "WithRoutingWeight"     -> [o EXCEPT !.Routing.Weight = v.n]
      [] v.fn = "WithRoutingScheme"     -> [o EXCEPT !.Routing.Scheme = v.s]

\* ApplyAll in which an earlier option wins over a later one
RECURSIVE ApplyAll_FirstWins(_, _)
ApplyAll_FirstWins(o, ovs) ==
    IF ovs = <<>> THEN o ELSE ApplyOption(ApplyAll_FirstWins(o, Tail(ovs)), Head(ovs))

\* the loop of New: the options applied in order, from the first
RECURSIVE ApplyAll(_, _)
ApplyAll(o, ovs) ==
    IF ovs = <<>> THEN o ELSE ApplyAll(ApplyOption(o, Head(ovs)), Tail(ovs))

\* Invalid that also rejects options without a service id
Invalid_OrNoID(o) == o.ServiceName = <<>> \/ o.ServiceID = <<>>

\* the check New makes on the options after the loop
Invalid(o) == o.ServiceName = <<>>

\* fmt.Sprintf("%s-%d", ServiceName, now)
GenerateID(name, now) == name \o << "-" >> \o Itoa(now)

\* Derive taking the advertised address from the default bind address
Derive_DefaultAddress(o, now) ==
    LET o1 == IF o.ServiceID = <<>>
              THEN [o EXCEPT !.ServiceID = GenerateID(o.ServiceName, now)] ELSE o
        o2 == IF o1.AdvertisedAddress = <<>>
              THEN [o1 EXCEPT !.AdvertisedAddress = DefaultOptions.Address] ELSE o1
    IN  IF o2.Routing.HealthCheckEndpoint = <<>>
        THEN [o2 EXCEPT !.Routing.HealthCheckEndpoint = o2.HealthEndpoint] ELSE o2

\* Derive taking the routing health-check path from the default path
Derive_DefaultHealth(o, now) ==
    LET o1 == IF o.ServiceID = <<>>
              THEN [o EXCEPT !.ServiceID = GenerateID(o.ServiceName, now)] ELSE o
        o2 == IF o1.AdvertisedAddress = <<>>
              THEN [o1 EXCEPT !.AdvertisedAddress = o1.Address] ELSE o1
    IN  IF o2.Routing.HealthCheckEndpoint = <<>>
        THEN [o2 EXCEPT !.Routing.HealthCheckEndpoint = DefaultOptions.HealthEndpoint] ELSE o2

\* the fields New fills in when they are left empty
Derive(o, now) ==
    LET o1 == IF o.ServiceID = <<>>
              THEN [o EXCEPT !.ServiceID = GenerateID(o.ServiceName, now)] ELSE o
        o2 == IF o1.AdvertisedAddress = <<>>
              THEN [o1 EXCEPT !.AdvertisedAddress = o1.Address] ELSE o1
    IN  IF o2.Routing.HealthCheckEndpoint = <<>>
        THEN [o2 EXCEPT !.Routing.HealthCheckEndpoint = o2.HealthEndpoint] ELSE o2

\* New(opts...) at the time now: err, and svc holding the options of the
\* MeshService (empty for the nil service)
New(ovs, now) ==
    LET o == ApplyAll(DefaultOptions, ovs)
    IN  IF Invalid(o) THEN [ err |-> TRUE, svc |-> <<>> ]
        ELSE [ err |-> FALSE, svc |-> << Derive(o, now) >> ]

\* WeightEntry that writes the key whatever the weight
WeightEntry_Always(m, w) == MapSet(m, "weight", Itoa(w))

\* the value buildMetadata gives the key weight
WeightEntry(m, w) == IF w > 0 THEN MapSet(m, "weight", Itoa(w)) ELSE m

\* MeshService.buildMetadata
buildMetadata(o) ==
    LET m1 == MapSet(o.Metadata, "scheme", o.Routing.Scheme)
        m2 == MapSet(m1, "health_check_endpoint", o.Routing.HealthCheckEndpoint)
        m3 == MapSet(m2, "lb_strategy", o.Routing.Strategy)
    IN  WeightEntry(m3, o.Routing.Weight)

(***************************************************************************)
(* State.                                                                  *)
(***************************************************************************)
VARIABLES
    opts,           \* the resolved ServiceOptions of the MeshService
    pc,             \* position of start
    ret,            \* value returned by start: "none" until it returns
    ctxDone,        \* the lifecycle context is cancelled
    cancelDuringTick, \* history: ctx was cancelled with a heartbeat in flight
    ln,             \* the listener: "none", "open", "closed"
    lnPort,         \* the port the listener is bound to, 0 before
    boundAddr,      \* MeshService.boundAddr
    actualPort,     \* start's actualPort
    grpcConn,       \* the registry connection: "nil", "open", "closed"
    regReq,         \* port of the RegisterServiceRequest sent, -1 before
    deregErr,      \* result of Deregister: "none", "nil", "err"
    regErr,         \* result of register: "none", "nil", "transport", "rejected", "canceled"
    deregCtx,       \* the shutdown's timeout context: "none", "live", "expired"
    hbPc,           \* position of the heartbeat goroutine
    heartbeatDone,  \* the heartbeatDone channel is closed
    tickC,          \* ticks buffered in ticker.C (0 or 1)
    nTicks,         \* ticks fired so far
    hbErr,          \* result of the last heartbeat: "none", "nil", "err"
    srvPc,          \* position of the serving goroutine
    serverErr,      \* values buffered in the serverErr channel
    serverErrClosed,\* the serverErr channel is closed
    shuttingDown,   \* server.Shutdown has been called
    log,            \* registry calls and connection events, in order
    healthResp,     \* the last answer of the health endpoint, <<>> before
    newPc,          \* position of a caller of New: "idle", "init", "called", "built"
    newIn,          \* the options passed to New
    newNow,         \* time.Now().UnixNano() at the call of New
    newOut,         \* what New returned
    metaOut         \* what buildMetadata returned

mainVars == << pc, ret, ln, lnPort, boundAddr, actualPort, grpcConn, regReq, deregErr, regErr, deregCtx >>
hbVars   == << hbPc, heartbeatDone, tickC, nTicks, hbErr >>
srvVars  == << srvPc, serverErr, serverErrClosed, shuttingDown >>
ctxVars  == << ctxDone, cancelDuringTick >>
newVars  == << newPc, newIn, newNow, newOut, metaOut >>
vars     == << opts, newVars, healthResp, ctxVars, mainVars, hbVars, srvVars, log >>

\* values of ServiceOptions.ServiceName of a MeshService
ServiceNames == {StrSvc, StrMeshService}

OptionsSet ==
    [ AutoRegister : BOOLEAN, HeartbeatEnabled : BOOLEAN,
      Port : Ports, Address : Addresses, HealthInterval : Intervals,
      ServiceName : ServiceNames, ServiceID : {StrId} ]

\* no call of New is modelled
NewIdle ==
    /\ newPc = "idle"
    /\ newIn = <<>>
    /\ newNow = 0
    /\ newOut = [ err |-> FALSE, svc |-> <<>> ]
    /\ metaOut = EmptyMap

\* start has been called and has done nothing yet
StartIdle ==
    /\ pc = "bind"
    /\ ret = "none"
    /\ ctxDone = FALSE
    /\ cancelDuringTick = FALSE
    /\ ln = "none"
    /\ lnPort = 0
    /\ boundAddr = <<>>
    /\ actualPort = 0
    /\ grpcConn = "nil"
    /\ regReq = -1
    /\ deregErr = "none"
    /\ regErr = "none"
    /\ deregCtx = "none"
    /\ hbPc = "notStarted"
    /\ heartbeatDone = FALSE
    /\ tickC = 0
    /\ nTicks = 0
    /\ hbErr = "none"
    /\ srvPc = "notStarted"
    /\ serverErr = <<>>
    /\ serverErrClosed = FALSE
    /\ shuttingDown = FALSE
    /\ log = <<>>
    /\ healthResp = <<>>

Init ==
    /\ opts \in OptionsSet
    /\ StartIdle
    /\ NewIdle

\* a panic in any goroutine ends the whole process
Alive == hbPc # "panicked"

\* discoveryClient != nil
HasClient == grpcConn # "nil"

(***************************************************************************)
(* The environment: cancellation of the lifecycle context.                 *)
(***************************************************************************)
Cancel ==
    /\ Alive
    /\ ~ctxDone
    /\ ctxDone' = TRUE
    /\ cancelDuringTick' = (hbPc = "inflight")
    /\ UNCHANGED << opts, newVars, healthResp, mainVars, hbVars, srvVars, log >>

(***************************************************************************)
(* start: binding and connecting.                                          *)
(***************************************************************************)
\* net.Listen fails: start returns the error
BindFail ==
    /\ Alive
    /\ pc = "bind"
    /\ pc' = "returned"
    /\ ret' = "err_listen"
    /\ UNCHANGED << opts, newVars, healthResp, ctxVars, ln, lnPort, boundAddr, actualPort, grpcConn, regReq, deregErr,
                    regErr, deregCtx, hbVars, srvVars, log >>

\* the address of the listener bound to port p
ListenAddr(p) == JoinHostPort(opts.Address, Itoa(p))

\* the port start reads back from boundAddr
ResolvePort(addr) == Atoi(SplitHostPort(addr)[2])

\* net.Listen succeeds on port p, which the system chooses when Port is 0
Bind(p) ==
    /\ Alive
    /\ pc = "bind"
    /\ IF opts.Port = 0 THEN p \in EphemeralPorts ELSE p = opts.Port
    /\ ln' = "open"
    /\ lnPort' = p
    /\ boundAddr' = ListenAddr(p)
    /\ actualPort' = ResolvePort(ListenAddr(p))
    /\ pc' = "connect"
    /\ UNCHANGED << opts, newVars, healthResp, ctxVars, ret, grpcConn, regReq, deregErr, regErr, deregCtx,
                    hbVars, srvVars, log >>

\* ConnectFail without ln.Close(): the listener stays open
ConnectFail_LeakListener ==
    /\ Alive
    /\ pc = "connect"
    /\ opts.AutoRegister \/ opts.HeartbeatEnabled
    /\ pc' = "returned"
    /\ ret' = "err_connect"
    /\ UNCHANGED << opts, newVars, healthResp, ctxVars, ln, lnPort, boundAddr, actualPort, grpcConn, regReq, deregErr,
                    regErr, deregCtx, hbVars, srvVars, log >>

\* grpc.NewClient fails: the listener is closed and start returns the error
ConnectFail ==
    /\ Alive
    /\ pc = "connect"
    /\ opts.AutoRegister \/ opts.HeartbeatEnabled
    /\ ln' = "closed"
    /\ pc' = "returned"
    /\ ret' = "err_connect"
    /\ UNCHANGED << opts, newVars, healthResp, ctxVars, lnPort, boundAddr, actualPort, grpcConn, regReq, deregErr,
                    regErr, deregCtx, hbVars, srvVars, log >>

\* Connect that starts the heartbeat loop as soon as the connection exists
Connect_StartsHeartbeat ==
    /\ Alive
    /\ pc = "connect"
    /\ grpcConn' = IF opts.AutoRegister \/ opts.HeartbeatEnabled THEN "open" ELSE "nil"
    /\ hbPc' = IF opts.HeartbeatEnabled THEN "spawned" ELSE hbPc
    /\ pc' = "register"
    /\ UNCHANGED << opts, newVars, healthResp, ctxVars, ret, ln, lnPort, boundAddr, actualPort, regReq, deregErr,
                    regErr, deregCtx, heartbeatDone, tickC, nTicks, hbErr, srvVars, log >>

\* grpc.NewClient succeeds, or no connection is needed
Connect ==
    /\ Alive
    /\ pc = "connect"
    /\ grpcConn' = IF opts.AutoRegister \/ opts.HeartbeatEnabled THEN "open" ELSE "nil"
    /\ pc' = "register"
    /\ UNCHANGED << opts, newVars, healthResp, ctxVars, ret, ln, lnPort, boundAddr, actualPort, regReq, deregErr,
                    regErr, deregCtx, hbVars, srvVars, log >>

(***************************************************************************)
(* start: registration.                                                    *)
(***************************************************************************)
\* RequestPort taken from the configured port instead of the bound one
RequestPort_Configured == opts.Port

\* the port register puts in the RegisterServiceRequest; the int32
\* conversion is exact on the port of a TCP listener
RequestPort == actualPort

\* auto-register is off: nothing is sent
RegisterSkip ==
    /\ Alive
    /\ pc = "register"
    /\ ~(opts.AutoRegister /\ HasClient)
    /\ pc' = "startHeartbeat"
    /\ UNCHANGED << opts, newVars, healthResp, ctxVars, ret, ln, lnPort, boundAddr, actualPort, grpcConn,
                    regReq, deregErr, regErr, deregCtx, hbVars, srvVars, log >>

\* register builds the request and calls client.Register(ctx, req)
RegisterBegin ==
    /\ Alive
    /\ pc = "register"
    /\ opts.AutoRegister /\ HasClient
    /\ regReq' = RequestPort
    /\ log' = Append(log, "register")
    /\ pc' = "registerCall"
    /\ UNCHANGED << opts, newVars, healthResp, ctxVars, ret, ln, lnPort, boundAddr, actualPort, grpcConn,
                    deregErr, regErr, deregCtx, hbVars, srvVars >>

\* AfterRegister with a failed registration treated as fatal
AfterRegister_Fatal(e) == IF e = "nil" THEN "startHeartbeat" ELSE "returned"

\* where start goes once register has returned regErr
AfterRegister(e) == "startHeartbeat"

\* the registry answers: accepted, rejected (Success = false), or the
\* transport fails; start logs a failure and goes on
RegisterReturn(e) ==
    /\ Alive
    /\ pc = "registerCall"
    /\ e \in {"nil", "transport", "rejected"}
    /\ regErr' = e
    /\ pc' = AfterRegister(e)
    /\ UNCHANGED << opts, newVars, healthResp, ctxVars, ret, ln, lnPort, boundAddr, actualPort, grpcConn,
                    regReq, deregErr, deregCtx, hbVars, srvVars, log >>

\* the lifecycle context, the only context of the call, is cancelled while
\* the registry has not answered: the call returns the Canceled error
RegisterCtxDone ==
    /\ Alive
    /\ pc = "registerCall"
    /\ ctxDone
    /\ regErr' = "canceled"
    /\ pc' = AfterRegister("canceled")
    /\ UNCHANGED << opts, newVars, healthResp, ctxVars, ret, ln, lnPort, boundAddr, actualPort, grpcConn,
                    regReq, deregErr, deregCtx, hbVars, srvVars, log >>

(***************************************************************************)
(* start: the two goroutines and the wait.                                 *)
(***************************************************************************)
\* StartHeartbeat that starts the loop whenever there is a client
StartHeartbeat_Always ==
    /\ Alive
    /\ pc = "startHeartbeat"
    /\ IF HasClient
       THEN hbPc' = "spawned" /\ UNCHANGED heartbeatDone
       ELSE heartbeatDone' = TRUE /\ UNCHANGED hbPc
    /\ pc' = "startServer"
    /\ UNCHANGED << opts, newVars, healthResp, ctxVars, ret, ln, lnPort, boundAddr, actualPort, grpcConn,
                    regReq, deregErr, regErr, deregCtx, tickC, nTicks, hbErr, srvVars, log >>

\* go heartbeatLoop, or close(heartbeatDone) at once
StartHeartbeat ==
    /\ Alive
    /\ pc = "startHeartbeat"
    /\ IF opts.HeartbeatEnabled /\ HasClient
       THEN hbPc' = "spawned" /\ UNCHANGED heartbeatDone
       ELSE heartbeatDone' = TRUE /\ UNCHANGED hbPc
    /\ pc' = "startServer"
    /\ UNCHANGED << opts, newVars, healthResp, ctxVars, ret, ln, lnPort, boundAddr, actualPort, grpcConn,
                    regReq, deregErr, regErr, deregCtx, tickC, nTicks, hbErr, srvVars, log >>

\* go server.Serve(ln)
StartServer ==
    /\ Alive
    /\ pc = "startServer"
    /\ srvPc' = "spawned"
    /\ pc' = "select"
    /\ UNCHANGED << opts, newVars, healthResp, ctxVars, ret, ln, lnPort, boundAddr, actualPort, grpcConn,
                    regReq, deregErr, regErr, deregCtx, hbVars, serverErr, serverErrClosed,
                    shuttingDown, log >>

\* select: case <-ctx.Done()
SelectCtxDone ==
    /\ Alive
    /\ pc = "select"
    /\ ctxDone
    /\ pc' = "shutdown"
    /\ UNCHANGED << opts, newVars, healthResp, ctxVars, ret, ln, lnPort, boundAddr, actualPort, grpcConn,
                    regReq, deregErr, regErr, deregCtx, hbVars, srvVars, log >>

\* select: case err := <-serverErr; a non-nil error is returned at once,
\* a closed empty channel yields nil and start goes on to the shutdown
SelectServerErr ==
    /\ Alive
    /\ pc = "select"
    /\ serverErr # <<>> \/ serverErrClosed
    /\ IF serverErr # <<>>
       THEN /\ serverErr' = Tail(serverErr)
            /\ ret' = Head(serverErr)
            /\ pc' = "returned"
       ELSE /\ pc' = "shutdown"
            /\ UNCHANGED << serverErr, ret >>
    /\ UNCHANGED << opts, newVars, healthResp, ctxVars, ln, lnPort, boundAddr, actualPort, grpcConn, regReq, deregErr,
                    regErr, deregCtx, hbVars, srvPc, serverErrClosed,
                    shuttingDown, log >>

(***************************************************************************)
(* start: the shutdown sequence.                                           *)
(***************************************************************************)
\* DeregisterSkip that skips the degraded report only
DeregisterSkip_OnlyDegraded ==
    /\ Alive
    /\ pc = "shutdown"
    /\ ~(opts.AutoRegister /\ HasClient)
    /\ pc' = IF HasClient THEN "deregister" ELSE "serverShutdown"
    /\ UNCHANGED << opts, newVars, healthResp, ctxVars, ret, ln, lnPort, boundAddr, actualPort, grpcConn,
                    regReq, deregErr, regErr, deregCtx, hbVars, srvVars, log >>

\* auto-register is off: no deregistration
DeregisterSkip ==
    /\ Alive
    /\ pc = "shutdown"
    /\ ~(opts.AutoRegister /\ HasClient)
    /\ pc' = "serverShutdown"
    /\ UNCHANGED << opts, newVars, healthResp, ctxVars, ret, ln, lnPort, boundAddr, actualPort, grpcConn,
                    regReq, deregErr, regErr, deregCtx, hbVars, srvVars, log >>

\* DegradedBegin without the degraded report: deregister goes straight to
\* the Deregister call
DegradedBegin_NoReport ==
    /\ Alive
    /\ pc = "shutdown"
    /\ opts.AutoRegister /\ HasClient
    /\ deregCtx' = "live"
    /\ pc' = "deregister"
    /\ UNCHANGED << opts, newVars, healthResp, ctxVars, ret, ln, lnPort, boundAddr, actualPort, grpcConn,
                    regReq, deregErr, regErr, hbVars, srvVars, log >>

\* deregCtx is created and deregister reports the degraded status
DegradedBegin ==
    /\ Alive
    /\ pc = "shutdown"
    /\ opts.AutoRegister /\ HasClient
    /\ deregCtx' = "live"
    /\ log' = Append(log, "degraded")
    /\ pc' = "degradedCall"
    /\ UNCHANGED << opts, newVars, healthResp, ctxVars, ret, ln, lnPort, boundAddr, actualPort, grpcConn,
                    regReq, deregErr, regErr, hbVars, srvVars >>

\* the five seconds of deregCtx run out during the deregistration
DeregCtxTimeout ==
    /\ Alive
    /\ pc \in {"degradedCall", "deregister", "deregisterCall"}
    /\ deregCtx = "live"
    /\ deregCtx' = "expired"
    /\ UNCHANGED << opts, newVars, healthResp, ctxVars, pc, ret, ln, lnPort, boundAddr, actualPort, grpcConn,
                    regReq, deregErr, regErr, hbVars, srvVars, log >>

\* the degraded report returns (answered, failed or timed out); its
\* result is dropped
DegradedReturn ==
    /\ Alive
    /\ pc = "degradedCall"
    /\ pc' = "deregister"
    /\ UNCHANGED << opts, newVars, healthResp, ctxVars, ret, ln, lnPort, boundAddr, actualPort, grpcConn,
                    regReq, deregErr, regErr, deregCtx, hbVars, srvVars, log >>

\* client.Deregister(ctx, req) is called
DeregisterBegin ==
    /\ Alive
    /\ pc = "deregister"
    /\ log' = Append(log, "deregister")
    /\ pc' = "deregisterCall"
    /\ UNCHANGED << opts, newVars, healthResp, ctxVars, ret, ln, lnPort, boundAddr, actualPort, grpcConn,
                    regReq, deregErr, regErr, deregCtx, hbVars, srvVars >>

\* AfterDeregister with a failed deregistration ending the shutdown
AfterDeregister_Fatal(e) == IF e = "nil" THEN "serverShutdown" ELSE "returned"

\* where start goes once deregister has returned: deregister has no result,
\* an error of Deregister is logged inside it
AfterDeregister(e) == "serverShutdown"

\* Deregister returns: answered while deregCtx is live, or failed (error,
\* the five seconds of deregCtx); an error is logged and deregister returns
\* either way
DeregisterReturn(e) ==
    /\ Alive
    /\ pc = "deregisterCall"
    /\ e \in {"nil", "err"}
    /\ e = "nil" => deregCtx = "live"
    /\ deregErr' = e
    /\ log' = Append(log, "deregister_ret")
    /\ pc' = AfterDeregister(e)
    /\ UNCHANGED << opts, newVars, healthResp, ctxVars, ret, ln, lnPort, boundAddr, actualPort, grpcConn,
                    regReq, regErr, deregCtx, hbVars, srvVars >>

\* server.Shutdown(shutdownCtx): listeners the server tracks are closed, and
\* the call returns within the ten seconds of shutdownCtx
ServerShutdown ==
    /\ Alive
    /\ pc = "serverShutdown"
    /\ shuttingDown' = TRUE
    /\ ln' = IF srvPc = "serving" THEN "closed" ELSE ln
    /\ pc' = "waitHeartbeat"
    /\ UNCHANGED << opts, newVars, healthResp, ctxVars, ret, lnPort, boundAddr, actualPort, grpcConn, regReq, deregErr,
                    regErr, deregCtx, hbVars, srvPc, serverErr, serverErrClosed, log >>

\* <-heartbeatDone
WaitHeartbeat ==
    /\ Alive
    /\ pc = "waitHeartbeat"
    /\ heartbeatDone
    /\ pc' = "closeConn"
    /\ UNCHANGED << opts, newVars, healthResp, ctxVars, ret, ln, lnPort, boundAddr, actualPort, grpcConn,
                    regReq, deregErr, regErr, deregCtx, hbVars, srvVars, log >>

\* grpcConn.Close() when there is a connection
CloseConn ==
    /\ Alive
    /\ pc = "closeConn"
    /\ IF grpcConn # "nil"
       THEN grpcConn' = "closed" /\ log' = Append(log, "close")
       ELSE UNCHANGED << grpcConn, log >>
    /\ pc' = "stopped"
    /\ UNCHANGED << opts, newVars, healthResp, ctxVars, ret, ln, lnPort, boundAddr, actualPort, regReq, deregErr,
                    regErr, deregCtx, hbVars, srvVars >>

\* return nil
ReturnNil ==
    /\ Alive
    /\ pc = "stopped"
    /\ ret' = "nil"
    /\ pc' = "returned"
    /\ UNCHANGED << opts, newVars, healthResp, ctxVars, ln, lnPort, boundAddr, actualPort, grpcConn, regReq, deregErr,
                    regErr, deregCtx, hbVars, srvVars, log >>

(***************************************************************************)
(* The heartbeat goroutine.                                                *)
(***************************************************************************)
\* time.NewTicker(HealthInterval) panics on a non-positive interval
HbNewTicker ==
    /\ Alive
    /\ hbPc = "spawned"
    /\ hbPc' = IF opts.HealthInterval > 0 THEN "select" ELSE "panicked"
    /\ UNCHANGED << opts, newVars, healthResp, ctxVars, mainVars, heartbeatDone, tickC, nTicks, hbErr,
                    srvVars, log >>

\* the timer: the running ticker puts a tick in its one-slot channel
Tick ==
    /\ Alive
    /\ hbPc \in {"select", "ticked", "inflight"}
    /\ nTicks < MaxTicks
    /\ tickC = 0
    /\ tickC' = 1
    /\ nTicks' = nTicks + 1
    /\ UNCHANGED << opts, newVars, healthResp, ctxVars, mainVars, hbPc, heartbeatDone, hbErr, srvVars, log >>

\* select: case <-ticker.C, which select may take also when ctx is done
HbSelectTick ==
    /\ Alive
    /\ hbPc = "select"
    /\ tickC = 1
    /\ tickC' = 0
    /\ hbPc' = "ticked"
    /\ UNCHANGED << opts, newVars, healthResp, ctxVars, mainVars, heartbeatDone, nTicks, hbErr, srvVars, log >>

\* HbExitCond of a loop that also gives up after a failed heartbeat
HbExitCond_OnFailure(e) == ctxDone \/ e = "err"

\* what makes the loop return: the cancellation of ctx
HbExitCond(e) == ctxDone

\* HbSelectDone without the deferred close(heartbeatDone)
HbSelectDone_NoClose ==
    /\ Alive
    /\ hbPc = "select"
    /\ HbExitCond(hbErr)
    /\ hbPc' = "done"
    /\ UNCHANGED << opts, newVars, healthResp, ctxVars, mainVars, heartbeatDone, tickC, nTicks, hbErr, srvVars, log >>

\* select: case <-ctx.Done(): the loop returns, the ticker stops and
\* heartbeatDone is closed
HbSelectDone ==
    /\ Alive
    /\ hbPc = "select"
    /\ HbExitCond(hbErr)
    /\ hbPc' = "done"
    /\ heartbeatDone' = TRUE
    /\ UNCHANGED << opts, newVars, healthResp, ctxVars, mainVars, tickC, nTicks, hbErr, srvVars, log >>

\* sendHeartbeat calls client.ReportHealth(reqCtx, healthy)
HbSend ==
    /\ Alive
    /\ hbPc = "ticked"
    /\ log' = Append(log, "heartbeat")
    /\ hbPc' = "inflight"
    /\ UNCHANGED << opts, newVars, healthResp, ctxVars, mainVars, heartbeatDone, tickC, nTicks, hbErr, srvVars >>

\* ReportHealth returns: answered, or failed (error, the five seconds of
\* reqCtx, the cancellation of ctx); a failure is logged
HbReturn(e) ==
    /\ Alive
    /\ hbPc = "inflight"
    /\ e \in {"nil", "err"}
    /\ hbErr' = e
    /\ hbPc' = "select"
    /\ UNCHANGED << opts, newVars, healthResp, ctxVars, mainVars, heartbeatDone, tickC, nTicks, srvVars, log >>

(***************************************************************************)
(* The serving goroutine.                                                  *)
(***************************************************************************)
\* server.Serve(ln) starts accepting; after Shutdown it returns
\* ErrServerClosed at once, closing the listener
SrvServe ==
    /\ Alive
    /\ srvPc = "spawned"
    /\ IF shuttingDown
       THEN /\ srvPc' = "closed"
            /\ ln' = "closed"
            /\ serverErrClosed' = TRUE
       ELSE /\ srvPc' = "serving"
            /\ UNCHANGED << ln, serverErrClosed >>
    /\ UNCHANGED << opts, newVars, healthResp, ctxVars, pc, ret, lnPort, boundAddr, actualPort, grpcConn, regReq, deregErr,
                    regErr, deregCtx, hbVars, serverErr, shuttingDown, log >>

StrHealthy == << "H", "e", "a", "l", "t", "h", "y" >>

\* healthHandler that reports the outcome of the registration
healthHandler_ByRegistration(o) ==
    [ status  |-> IF regErr \in {"none", "nil"} THEN StrHealthy ELSE << "D", "o", "w", "n" >>,
      service |-> o.ServiceName,
      id      |-> o.ServiceID ]

\* the payload healthHandler encodes
healthHandler(o) ==
    [ status |-> StrHealthy, service |-> o.ServiceName, id |-> o.ServiceID ]

\* the server accepts a GET of the health endpoint and answers it
HealthQuery ==
    /\ Alive
    /\ srvPc = "serving"
    /\ ln = "open"
    /\ healthResp' = << healthHandler(opts) >>
    /\ UNCHANGED << opts, newVars, ctxVars, mainVars, hbVars, srvVars, log >>

\* Serve fails with an error other than ErrServerClosed: the error is
\* sent on serverErr and the channel is closed
SrvFail ==
    /\ Alive
    /\ srvPc = "serving"
    /\ ~shuttingDown
    /\ srvPc' = "failed"
    /\ ln' = "closed"
    /\ serverErr' = Append(serverErr, "err_serve")
    /\ serverErrClosed' = TRUE
    /\ UNCHANGED << opts, newVars, healthResp, ctxVars, pc, ret, lnPort, boundAddr, actualPort, grpcConn, regReq, deregErr,
                    regErr, deregCtx, hbVars, shuttingDown, log >>

\* Serve returns ErrServerClosed after Shutdown: the channel is closed
SrvClosed ==
    /\ Alive
    /\ srvPc = "serving"
    /\ shuttingDown
    /\ srvPc' = "closed"
    /\ serverErrClosed' = TRUE
    /\ UNCHANGED << opts, newVars, healthResp, ctxVars, mainVars, hbVars, serverErr, shuttingDown, log >>

Next ==
    \/ Cancel
    \/ BindFail
    \/ \E p \in EphemeralPorts \cup Ports : Bind(p)
    \/ ConnectFail
    \/ Connect
    \/ RegisterSkip
    \/ RegisterBegin
    \/ \E e \in {"nil", "transport", "rejected"} : RegisterReturn(e)
    \/ RegisterCtxDone
    \/ StartHeartbeat
    \/ StartServer
    \/ SelectCtxDone
    \/ SelectServerErr
    \/ DeregisterSkip
    \/ DegradedBegin
    \/ DeregCtxTimeout
    \/ DegradedReturn
    \/ DeregisterBegin
    \/ \E e \in {"nil", "err"} : DeregisterReturn(e)
    \/ ServerShutdown
    \/ WaitHeartbeat
    \/ CloseConn
    \/ ReturnNil
    \/ HbNewTicker
    \/ Tick
    \/ HbSelectTick
    \/ HbSelectDone
    \/ HbSend
    \/ \E e \in {"nil", "err"} : HbReturn(e)
    \/ SrvServe
    \/ SrvFail
    \/ SrvClosed
    \/ HealthQuery

Spec == Init /\ [][Next]_vars

(***************************************************************************)
(* The scheduler runs every goroutine that can run; every registry call    *)
(* made with a timeout returns; Register, made with the lifecycle context  *)
(* alone, returns once that context is cancelled; a select that is         *)
(* offered a ready case again and again takes it in the end.               *)
(***************************************************************************)
MainStep ==
    \/ \E p \in EphemeralPorts \cup Ports : Bind(p)
    \/ Connect
    \/ RegisterSkip
    \/ RegisterBegin
    \/ RegisterCtxDone
    \/ StartHeartbeat
    \/ StartServer
    \/ SelectCtxDone
    \/ SelectServerErr
    \/ DeregisterSkip
    \/ DegradedBegin
    \/ DegradedReturn
    \/ DeregisterBegin
    \/ \E e \in {"nil", "err"} : DeregisterReturn(e)
    \/ ServerShutdown
    \/ WaitHeartbeat
    \/ CloseConn
    \/ ReturnNil

HbStep ==
    \/ HbNewTicker
    \/ HbSend
    \/ \E e \in {"nil", "err"} : HbReturn(e)

SrvStep == SrvServe \/ SrvClosed

\* one bind address and the default port: termination does not depend on
\* either
FairInit ==
    /\ Init
    /\ opts.Port = DefaultPort
    /\ opts.Address = << "0", ".", "0" >>
    /\ opts.ServiceName = StrSvc

FairSpec ==
    /\ FairInit
    /\ [][Next]_vars
    /\ WF_vars(MainStep)
    /\ WF_vars(HbStep)
    /\ SF_vars(HbSelectDone)
    /\ WF_vars(SrvStep)

(***************************************************************************)
(* Calls of New and of buildMetadata on its result.                        *)
(***************************************************************************)
\* values of time.Now().UnixNano()
Times == {1, 42}

RECURSIVE SeqsUpTo(_, _)
SeqsUpTo(S, n) ==
    IF n = 0 THEN { <<>> }
    ELSE SeqsUpTo(S, n - 1) \cup { Append(q, x) : q \in { r \in SeqsUpTo(S, n - 1) : Len(r) = n - 1 }, x \in S }

NewInit ==
    /\ opts = CHOOSE o \in OptionsSet : TRUE
    /\ StartIdle
    /\ newPc = "init"
    /\ newIn \in SeqsUpTo(Overrides, MaxOverrides)
    /\ newNow \in Times
    /\ newOut = [ err |-> FALSE, svc |-> <<>> ]
    /\ metaOut = EmptyMap

\* svc, err := New(opts...)
CallNew ==
    /\ newPc = "init"
    /\ newOut' = New(newIn, newNow)
    /\ newPc' = "called"
    /\ UNCHANGED << opts, healthResp, ctxVars, mainVars, hbVars, srvVars, log,
                    newIn, newNow, metaOut >>

\* m := svc.buildMetadata(), on a service New returned
CallBuildMetadata ==
    /\ newPc = "called"
    /\ ~newOut.err
    /\ metaOut' = buildMetadata(newOut.svc[1])
    /\ newPc' = "built"
    /\ UNCHANGED << opts, healthResp, ctxVars, mainVars, hbVars, srvVars, log,
                    newIn, newNow, newOut >>

NewNext == CallNew \/ CallBuildMetadata

NewSpec == NewInit /\ [][NewNext]_vars

(***************************************************************************)
(* Properties.                                                             *)
(***************************************************************************)
InLog(e) == \E i \in 1..Len(log) : log[i] = e

\* position of the first e in log, 0 when there is none
IdxOf(e) == IF InLog(e) THEN CHOOSE i \in 1..Len(log) : log[i] = e /\ \A j \in 1..(i - 1) : log[j] # e ELSE 0

Before(a, b) == InLog(a) /\ InLog(b) /\ IdxOf(a) < IdxOf(b)

\* C1: with auto-register enabled, a Deregister call is preceded by the
\* degraded report, and the release of the registry connection is preceded
\* by both, wherever the heartbeats fall.
C1_DegradedThenDeregisterThenClose ==
    opts.AutoRegister =>
        /\ InLog("deregister") => Before("degraded", "deregister")
        /\ InLog("close") => Before("degraded", "deregister") /\ Before("deregister", "close")

\* a shutdown with auto-register ran to the release of the connection while
\* a heartbeat was issued between the degraded report and the release
C1_Witness ==
    /\ opts.AutoRegister
    /\ InLog("close")
    /\ \E i \in 1..Len(log) : log[i] = "heartbeat" /\ IdxOf("degraded") < i

\* C2: once the lifecycle context is cancelled, no heartbeat is issued
\* after the Deregister call has returned.
C2_NoHeartbeatAfterDeregister ==
    ctxDone => ~\E i, j \in 1..Len(log) :
                   i < j /\ log[i] = "deregister_ret" /\ log[j] = "heartbeat"

ServingOrLater ==
    {"select", "shutdown", "degradedCall", "deregister", "deregisterCall",
     "serverShutdown", "waitHeartbeat", "closeConn", "stopped", "returned"}

RegisterFailed == regErr \in {"transport", "rejected", "canceled"}

\* C3: after a failed registration start goes on: it starts the serving
\* goroutine on the open listener, and what it returns in the end is nil or
\* the error of the serving flow.
C3_RegistrationFailureNotFatal ==
    RegisterFailed =>
        /\ pc \in {"startHeartbeat", "startServer"} \cup ServingOrLater
        /\ pc \in {"startHeartbeat", "startServer"} => ln = "open" /\ ret = "none"
        /\ pc \in ServingOrLater => srvPc # "notStarted"
        /\ pc = "returned" => ret \in {"nil", "err_serve"}

\* the registry rejected the registration and the service is serving
C3_Witness ==
    /\ regErr = "rejected"
    /\ pc = "select"
    /\ srvPc = "serving"
    /\ ln = "open"

\* C4: the heartbeat loop returns only when the lifecycle context is
\* cancelled; a heartbeat that returned, failed or not, brings the loop
\* back to its select, and a tick the loop takes is followed by a healthy
\* report.
C4_HeartbeatLoopExitsOnlyOnCancel ==
    [][ /\ (hbPc # "done" /\ hbPc' = "done") => ctxDone
        /\ (hbPc = "inflight" /\ hbPc' # "inflight") => hbPc' = "select"
        /\ (hbPc = "select" /\ hbPc' # "select" /\ ~ctxDone) => hbPc' = "ticked"
        /\ (hbPc = "ticked" /\ hbPc' # "ticked") =>
               hbPc' = "inflight" /\ log' = Append(log, "heartbeat")
      ]_vars

\* a heartbeat is in flight after the previous one failed, with no
\* cancellation
C4_Witness ==
    /\ hbErr = "err"
    /\ hbPc = "inflight"
    /\ ~ctxDone

ShutdownComplete ==
    /\ ret = "nil"
    /\ shuttingDown
    /\ hbPc = "done"
    /\ grpcConn = "closed"
    /\ opts.AutoRegister =>
           /\ Before("degraded", "deregister")
           /\ Before("deregister", "deregister_ret")
           /\ Before("deregister_ret", "close")

C6_ServingErrorRunsShutdown ==
    (pc = "returned" /\ ret = "err_serve" /\ ~ctxDone /\ opts.AutoRegister) =>
        Before("degraded", "deregister")

StartupError == ret \in {"err_listen", "err_connect"}

\* C7: start returns the error of the serving flow whenever that flow has
\* failed, and nil when it has not.
C7_ServingErrorReturned ==
    (pc = "returned" /\ ~StartupError) =>
        IF srvPc = "failed" THEN ret = "err_serve" ELSE ret = "nil"

\* C8: when start has returned, a registry connection that was
\* established has been released.
C8_ConnectionReleasedOnReturn ==
    (pc = "returned" /\ grpcConn # "nil") => grpcConn = "closed"

\* C9: with port 0 configured, the bound port is not 0 and start resolves
\* it from the bound address; the port of a register request is the bound
\* port and is never 0.
C9_EphemeralPortAdvertised ==
    /\ (opts.Port = 0 /\ ln # "none") => lnPort # 0 /\ actualPort = lnPort
    /\ regReq # -1 => regReq = lnPort /\ regReq # 0

\* a register request was sent from a listener bound with port 0 on an
\* address that is written in brackets
C9_Witness ==
    /\ opts.Port = 0
    /\ HasChar(opts.Address, ":")
    /\ regReq \in EphemeralPorts

\* C10: after a startup failure start has returned the error, the listener
\* is not open, neither goroutine was started, there is no registry
\* connection and no registry call was made.
C10_StartupFailureLeavesNothing ==
    StartupError =>
        /\ pc = "returned"
        /\ ln # "open"
        /\ hbPc = "notStarted"
        /\ srvPc = "notStarted"
        /\ grpcConn = "nil"
        /\ log = <<>>
        /\ regReq = -1

\* the connection to the registry could not be set up after the listener
\* was bound
C10_Witness ==
    /\ ret = "err_connect"
    /\ ln = "closed"
    /\ lnPort # 0

(***************************************************************************)
(* What a sequence of options writes, read off the sequence itself.        *)
(***************************************************************************)
\* the position in newIn of the last option fn (with key k), 0 if none
LastIdx(fn, k) ==
    LET I == { i \in 1..Len(newIn) : newIn[i].fn = fn /\ newIn[i].key = k }
    IN  IF I = {} THEN 0 ELSE CHOOSE i \in I : \A j \in I : j <= i

Sets(fn) == LastIdx(fn, "") # 0

\* the string, int, bool the last option fn wrote, d if there is none
WrittenS(fn, d) == IF Sets(fn) THEN newIn[LastIdx(fn, "")].s ELSE d
WrittenN(fn, d) == IF Sets(fn) THEN newIn[LastIdx(fn, "")].n ELSE d
WrittenB(fn, d) == IF Sets(fn) THEN newIn[LastIdx(fn, "")].b ELSE d

\* the metadata the WithMetadata options wrote, key by key
WrittenMetadata ==
    [ k \in { k \in MetadataKeys : LastIdx("WithMetadata", k) # 0 } |->
        newIn[LastIdx("WithMetadata", k)].s ]

NewReturned == newPc \in {"called", "built"}

NewSucceeded == NewReturned /\ ~newOut.err

\* the options of the service New returned
Resolved == newOut.svc[1]

\* C11: New fails exactly when the service name written last (the default
\* name when no option writes it) is empty, whatever the other options.
C11_FailsIffNameEmpty ==
    NewReturned =>
        (newOut.err <=> WrittenS("WithServiceName", StrMeshService) = <<>>)

\* New failed on a name that a later option emptied
C11_Witness ==
    /\ NewReturned
    /\ newOut.err
    /\ Len(newIn) = 2
    /\ newIn[1].fn = "WithServiceName" /\ newIn[1].s # <<>>
    /\ newIn[2].fn = "WithServiceName" /\ newIn[2].s = <<>>

\* the fields New never derives hold what was written last, or the default
PlainFieldsLastWins ==
    /\ Resolved.ServiceName = WrittenS("WithServiceName", StrMeshService)
    /\ Resolved.Address = WrittenS("WithAddress", << "0", ".", "0" >>)
    /\ Resolved.Port = WrittenN("WithPort", DefaultPort)
    /\ Resolved.HealthEndpoint = WrittenS("WithHealthEndpoint", StrHealth)
    /\ Resolved.HealthInterval = WrittenN("WithHealthInterval", 30)
    /\ Resolved.HealthTimeout = 5
    /\ Resolved.UnhealthyThreshold = 3
    /\ Resolved.HeartbeatEnabled = WrittenB("WithHeartbeat", TRUE)
    /\ Resolved.AutoRegister = WrittenB("WithAutoRegister", TRUE)
    /\ Resolved.DiscoveryAddress = WrittenS("WithDiscoveryAddress", StrLocalhost)
    /\ Resolved.Metadata = WrittenMetadata
    /\ Resolved.Routing.Scheme = WrittenS("WithRoutingScheme", StrHttp)
    /\ Resolved.Routing.Strategy = WrittenS("WithRoutingStrategy", RoundRobin)
    /\ Resolved.Routing.Weight = WrittenN("WithRoutingWeight", 1)

\* C12 as stated: every field of the resolved options holds what the last
\* option that set it wrote, and its default when no option set it.
C12_EveryFieldLastWins ==
    NewSucceeded =>
        /\ PlainFieldsLastWins
        /\ Resolved.ServiceID = WrittenS("WithServiceID", <<>>)
        /\ Resolved.AdvertisedAddress = WrittenS("WithAdvertisedAddress", <<>>)
        /\ Resolved.Routing.HealthCheckEndpoint = <<>>

\* v, or d when v is empty
OrElse(v, d) == IF v = <<>> THEN d ELSE v

\* C12 as amended: every field holds what the last option that set it
\* wrote, and its default when none did, except that a service id, an
\* advertised address and a routing health-check path that are empty by
\* that rule hold the generated id, the bind address and the health path.
C12_LastWinsUpToDerivation ==
    NewSucceeded =>
        /\ PlainFieldsLastWins
        /\ Resolved.ServiceID =
               OrElse(WrittenS("WithServiceID", <<>>),
                      Resolved.ServiceName \o << "-" >> \o Itoa(newNow))
        /\ Resolved.AdvertisedAddress =
               OrElse(WrittenS("WithAdvertisedAddress", <<>>), Resolved.Address)
        /\ Resolved.Routing.HealthCheckEndpoint = Resolved.HealthEndpoint

\* two options wrote different values to the same field
C12_Witness ==
    /\ NewSucceeded
    /\ Len(newIn) = 2
    /\ newIn[1].fn = newIn[2].fn
    /\ newIn[1].key = newIn[2].key
    /\ newIn[1] # newIn[2]

\* C13: when no option sets the advertised address, the resolved
\* advertised address is the bind address written last.
C13_AdvertisedDefaultsToAddress ==
    (NewSucceeded /\ ~Sets("WithAdvertisedAddress")) =>
        Resolved.AdvertisedAddress = WrittenS("WithAddress", << "0", ".", "0" >>)

\* the bind address was set by the last of two options, none of them the
\* advertised address
C13_Witness ==
    /\ NewSucceeded
    /\ Len(newIn) = 2
    /\ ~Sets("WithAdvertisedAddress")
    /\ newIn[2].fn = "WithAddress"
    /\ newIn[2].s # DefaultOptions.Address
    /\ Resolved.AdvertisedAddress = newIn[2].s

\* C14: the resolved routing health-check path is the health endpoint
\* path written last (no option sets the routing path).
C14_RoutingHealthPathDefaultsToEndpoint ==
    NewSucceeded =>
        Resolved.Routing.HealthCheckEndpoint = WrittenS("WithHealthEndpoint", StrHealth)

\* the health endpoint was set to a path other than the default
C14_Witness ==
    /\ NewSucceeded
    /\ Sets("WithHealthEndpoint")
    /\ Resolved.Routing.HealthCheckEndpoint = StrReady

ReservedKeys == {"scheme", "health_check_endpoint", "lb_strategy"}

\* the decimal text of the weights in use
WeightText(w) == IF w = 3 THEN << "3" >> ELSE << "1" >>

\* C15: the built metadata has the user's keys and the reserved keys;
\* scheme, health_check_endpoint and lb_strategy hold the routing values,
\* weight holds the routing weight exactly when that is positive, and
\* every other entry is the user's.
C15_BuiltMetadata ==
    newPc = "built" =>
        LET user == Resolved.Metadata
            r    == Resolved.Routing
        IN  /\ DOMAIN metaOut = DOMAIN user \cup ReservedKeys
                                \cup (IF r.Weight > 0 THEN {"weight"} ELSE {})
            /\ metaOut["scheme"] = r.Scheme
            /\ metaOut["health_check_endpoint"] = r.HealthCheckEndpoint
            /\ metaOut["lb_strategy"] = r.Strategy
            /\ r.Weight > 0 => metaOut["weight"] = WeightText(r.Weight)
            /\ \A k \in DOMAIN user \ ReservedKeys :
                   (k # "weight" \/ r.Weight <= 0) => metaOut[k] = user[k]

\* the user's metadata has the key scheme, which the routing scheme
\* replaced, and the weight is positive
C15_Witness ==
    /\ newPc = "built"
    /\ "scheme" \in DOMAIN Resolved.Metadata
    /\ Resolved.Metadata["scheme"] # metaOut["scheme"]
    /\ Resolved.Routing.Weight > 0
    /\ "weight" \in DOMAIN metaOut
    /\ metaOut["weight"] = Itoa(Resolved.Routing.Weight)

(***************************************************************************)
(* Properties of the health endpoint, the heartbeats and the timeouts.     *)
(***************************************************************************)
\* C16: every answer of the health endpoint has status Healthy and the
\* service name and instance id of the options, and while start waits in
\* Serving with the server accepting, a health query can be answered.
C16_HealthAnswer ==
    /\ healthResp # <<>> =>
           healthResp[1] = [ status  |-> << "H", "e", "a", "l", "t", "h", "y" >>,
                             service |-> opts.ServiceName,
                             id      |-> opts.ServiceID ]
    /\ (Alive /\ pc = "select" /\ srvPc = "serving") => ENABLED HealthQuery

\* a health query was answered after the registration was rejected and a
\* heartbeat failed
C16_Witness ==
    /\ healthResp # <<>>
    /\ regErr = "rejected"
    /\ hbErr = "err"
    /\ pc = "select"

\* C17: no heartbeat is issued once the Deregister call has begun, and
\* none is in flight once it has returned.
C17_NoHeartbeatOnceDeregisterBegan ==
    /\ ~\E i, j \in 1..Len(log) :
           i < j /\ log[i] = "deregister" /\ log[j] = "heartbeat"
    /\ InLog("deregister_ret") => hbPc # "inflight"

\* C18: every registry call returns, also when the lifecycle context is
\* never cancelled and the registry never answers.
C18_EveryRegistryCallReturns ==
    /\ (pc = "registerCall") ~> (pc # "registerCall")
    /\ (hbPc = "inflight") ~> (hbPc # "inflight")
    /\ (pc = "degradedCall") ~> (pc # "degradedCall" \/ ~Alive)
    /\ (pc = "deregisterCall") ~> (pc # "deregisterCall" \/ ~Alive)

\* C19 as stated: the heartbeat loop is started, and a heartbeat sent,
\* only when heartbeats are enabled and the registration was attempted.
C19_HeartbeatOnlyAfterRegistration ==
    /\ hbPc # "notStarted" => opts.HeartbeatEnabled /\ InLog("register")
    /\ InLog("heartbeat") => opts.AutoRegister

\* C19 as amended: the heartbeat loop is started, and a heartbeat sent,
\* only when heartbeats are enabled and the registry connection is
\* there, whether auto-register is enabled or not.
C19_HeartbeatOnlyWhenEnabled ==
    /\ hbPc # "notStarted" => opts.HeartbeatEnabled /\ HasClient
    /\ InLog("heartbeat") => opts.HeartbeatEnabled

\* a heartbeat was sent with auto-register disabled
C19_Witness ==
    /\ ~opts.AutoRegister
    /\ opts.HeartbeatEnabled
    /\ InLog("heartbeat")
    /\ ~InLog("register")

\* C20: when the degraded report returns on the expiry of its deadline,
\* the deadline the Deregister call is then made with has not expired.
C20_DeregisterDeadlineLive ==
    [][ (pc = "degradedCall" /\ deregCtx = "expired" /\ pc' = "deregister")
            => deregCtx' = "live" ]_vars

(***************************************************************************)
(* Properties of the run without auto-register, of the shutdown's          *)
(* failures, of the calls in flight, of the probe interval and of the      *)
(* state start leaves behind.                                              *)
(***************************************************************************)
\* C21: with auto-register disabled no Register call is issued, start is
\* never inside register or deregister, and neither the degraded report nor
\* the Deregister call is issued.
C21_NoRegistryLifecycleWithoutAutoRegister ==
    ~opts.AutoRegister =>
        /\ ~InLog("register") /\ ~InLog("degraded") /\ ~InLog("deregister")
        /\ pc \notin {"registerCall", "degradedCall", "deregister", "deregisterCall"}
        /\ regReq = -1 /\ regErr = "none"
        /\ deregCtx = "none" /\ deregErr = "none"

\* without auto-register and with heartbeats, start ran to the end of the
\* shutdown: the connection existed, heartbeats were sent on it, and it was
\* released
C21_Witness ==
    /\ ~opts.AutoRegister
    /\ opts.HeartbeatEnabled
    /\ pc = "returned" /\ ret = "nil"
    /\ InLog("heartbeat")
    /\ InLog("close")

AfterDeregisterCall == {"serverShutdown", "waitHeartbeat", "closeConn", "stopped", "returned"}

\* C22: when start has returned after a cancellation, with no startup error
\* and no error of the serving flow, it has returned nil after stopping the
\* server, waiting for the heartbeat loop and releasing the connection,
\* whatever the heartbeats and the shutdown's calls returned; and once
\* Deregister has failed, start is in the later steps of the shutdown.
C22_ShutdownFailuresNotPropagated ==
    /\ (pc = "returned" /\ ctxDone /\ srvPc # "failed" /\ ~StartupError) =>
           /\ ret = "nil"
           /\ shuttingDown
           /\ heartbeatDone
           /\ grpcConn # "open"
    /\ deregErr = "err" =>
           /\ pc \in AfterDeregisterCall
           /\ pc = "returned" => ret = "nil" /\ shuttingDown /\ heartbeatDone /\ grpcConn = "closed"

\* start returned nil after a heartbeat failed, the degraded report used
\* up the shutdown's deadline and Deregister failed
C22_Witness ==
    /\ pc = "returned" /\ ret = "nil"
    /\ ctxDone
    /\ srvPc # "failed"
    /\ hbErr = "err"
    /\ deregCtx = "expired"
    /\ deregErr = "err"

\* the registry calls in flight on the connection
InFlight ==
    { c \in {"register", "degraded", "deregister", "heartbeat"} :
        \/ c = "register" /\ pc = "registerCall"
        \/ c = "degraded" /\ pc = "degradedCall"
        \/ c = "deregister" /\ pc = "deregisterCall"
        \/ c = "heartbeat" /\ hbPc = "inflight" }

\* C23: at most two registry calls are in flight; two in flight are a
\* heartbeat and the degraded report or the Deregister call; the Register
\* call is in flight alone.
C23_AtMostTwoCallsInFlight ==
    /\ Cardinality(InFlight) <= 2
    /\ Cardinality(InFlight) = 2 =>
           /\ "heartbeat" \in InFlight
           /\ InFlight \cap {"degraded", "deregister"} # {}
    /\ "register" \in InFlight => InFlight = {"register"}

\* a heartbeat is in flight together with the Deregister call
C23_Witness ==
    /\ Alive
    /\ InFlight = {"heartbeat", "deregister"}

\* C24: the options of a service New returned have a probe interval
\* greater than 0.
C24_ProbeIntervalPositive ==
    NewSucceeded => Resolved.HealthInterval > 0

\* C25: once start has returned, no registry call is in flight and the
\* heartbeat loop has not started or has returned.
C25_NothingRunsAfterReturn ==
    pc = "returned" => hbPc \in {"notStarted", "done", "panicked"}

====
